---- MODULE Spec2Model ----
(***************************************************************************)
(* A model of scripts/analyze_github.py: the GitHubAnalyzer object, its    *)
(* reference parser (parse_url), and the analyze() pipeline with its       *)
(* scanners and its cleanup.                                               *)
(*                                                                         *)
(* Python strings are modelled as sequences of one-character strings, so   *)
(* that suffix tests, substring tests, case folding, splitting and the     *)
(* regular expressions of the source are computed rather than assumed.     *)
(***************************************************************************)
EXTENDS Integers, Sequences, FiniteSets, TLC

(***************************************************************************)
(* String primitives (Python str methods used by the source).              *)
(***************************************************************************)
Min(a, b) == IF a < b THEN a ELSE b

\* s[:n]
Take(s, n) == SubSeq(s, 1, Min(n, Len(s)))

\* s[n:]
Drop(s, n) == SubSeq(s, n + 1, Len(s))

\* s.startswith(p)
StartsWith(s, p) == Len(p) <= Len(s) /\ SubSeq(s, 1, Len(p)) = p

\* s.endswith(p)
EndsWith(s, p) == Len(p) <= Len(s) /\ SubSeq(s, Len(s) - Len(p) + 1, Len(s)) = p

\* whether sub occurs in s at (1-based) position i
OccursAt(s, sub, i) == i >= 1 /\ i + Len(sub) - 1 <= Len(s) /\ SubSeq(s, i, i + Len(sub) - 1) = sub

\* sub in s
Contains(s, sub) == \E i \in 1..(Len(s) + 1) : OccursAt(s, sub, i)

\* s.find(sub) as a 1-based position, 0 when absent
Find(s, sub) ==
    IF Contains(s, sub)
    THEN CHOOSE i \in 1..(Len(s) + 1) :
            OccursAt(s, sub, i) /\ \A j \in 1..(i - 1) : ~OccursAt(s, sub, j)
    ELSE 0

\* s.rfind(sub) as a 1-based position, 0 when absent
RFind(s, sub) ==
    IF Contains(s, sub)
    THEN CHOOSE i \in 1..(Len(s) + 1) :
            OccursAt(s, sub, i) /\ \A j \in (i + 1)..(Len(s) + 1) : ~OccursAt(s, sub, j)
    ELSE 0

\* s.split(sep)[0]
SplitFirst(s, sep) == IF Contains(s, sep) THEN SubSeq(s, 1, Find(s, sep) - 1) ELSE s

UpperChars == <<"A","B","C","D","E","F","G","H","I","J","K","L","M",
                "N","O","P","Q","R","S","T","U","V","W","X","Y","Z">>

LowerChars == <<"a","b","c","d","e","f","g","h","i","j","k","l","m",
                "n","o","p","q","r","s","t","u","v","w","x","y","z">>

LowerChar(c) ==
    IF \E i \in 1..Len(UpperChars) : UpperChars[i] = c
    THEN LowerChars[CHOOSE i \in 1..Len(UpperChars) : UpperChars[i] = c]
    ELSE c

\* s.lower()
Lower(s) == [i \in 1..Len(s) |-> LowerChar(s[i])]

Whitespace == {" ", "\t", "\n", "\r"}

RECURSIVE LStrip(_)
LStrip(s) == IF s # <<>> /\ s[1] \in Whitespace THEN LStrip(Tail(s)) ELSE s

RECURSIVE RStrip(_)
RStrip(s) ==
    IF s # <<>> /\ s[Len(s)] \in Whitespace THEN RStrip(SubSeq(s, 1, Len(s) - 1)) ELSE s

\* s.strip()
Strip(s) == RStrip(LStrip(s))

\* s.replace(old, ''): every non-overlapping occurrence, left to right
RECURSIVE RemoveAll(_, _)
RemoveAll(s, old) ==
    IF s = <<>> THEN <<>>
    ELSE IF StartsWith(s, old) THEN RemoveAll(Drop(s, Len(old)), old)
    ELSE <<s[1]>> \o RemoveAll(Tail(s), old)

(***************************************************************************)
(* String literals.                                                        *)
(***************************************************************************)
s_slash == <<"/">>
s_dot == <<".">>
s_git_suffix == <<".", "g", "i", "t">>
s_github_com == <<"g","i","t","h","u","b",".","c","o","m">>
s_gitlab_com == <<"g","i","t","l","a","b",".","c","o","m">>
s_https == <<"h","t","t","p","s",":","/","/">>
s_git_at == <<"g","i","t","@">>
s_newline == <<"\n">>

(***************************************************************************)
(* parse_url                                                               *)
(***************************************************************************)
\* a failed re.search
NoMatch == [ok |-> FALSE]

\* [^/]+ : a non-empty run without '/'
NoSlash(s) == s # <<>> /\ \A i \in 1..Len(s) : s[i] # "/"

\* (?:\.git)?$ : what may follow the name group; $ also matches just before a
\* final newline
NameTails == {<<>>, s_git_suffix, s_newline, s_git_suffix \o s_newline}

\* ([^/]+?)(?:\.git)?$ against rest: the lengths the lazy group may take
NameLens(rest) ==
    {n \in 1..Len(rest) : NoSlash(SubSeq(rest, 1, n)) /\ Drop(rest, n) \in NameTails}

\* the pattern  github\.com<sep>([^/]+)/([^/]+?)(?:\.git)?$  tried at position i
MatchesAt(url, seps, i) ==
    /\ OccursAt(url, s_github_com, i)
    /\ i + Len(s_github_com) <= Len(url)
    /\ url[i + Len(s_github_com)] \in seps
    /\ LET after == Drop(url, i + Len(s_github_com))
           k == Find(after, s_slash)
       IN  /\ k > 1
           /\ NameLens(Drop(after, k)) # {}

\* match.groups() of the match at position i
GroupsAt(url, i) ==
    LET after == Drop(url, i + Len(s_github_com))
        k == Find(after, s_slash)
        rest == Drop(after, k)
        lens == NameLens(rest)
        n == CHOOSE m \in lens : \A m2 \in lens : m <= m2
    IN  [ok |-> TRUE, owner |-> SubSeq(after, 1, k - 1), repo |-> SubSeq(rest, 1, n)]

\* re.search(pattern, url): the leftmost match, or None
Search(url, seps) ==
    LET hits == {i \in 1..Len(url) : MatchesAt(url, seps, i)}
    IN  IF hits = {} THEN NoMatch
        ELSE GroupsAt(url, CHOOSE i \in hits : \A j \in hits : i <= j)

\* the separators after the host in patterns[0] and patterns[1]
patterns == <<{":", "/"}, {"/"}>>

\* the replacement applied to the name group
StripGit(repo) == RemoveAll(repo, s_git_suffix)

\* parse_url(): <<owner, repo>> or the ValueError
ParseUrlResult(url) ==
    LET m1 == Search(url, patterns[1])
        m2 == Search(url, patterns[2])
    IN  IF m1.ok THEN [ok |-> TRUE, owner |-> m1.owner, repo |-> StripGit(m1.repo)]
        ELSE IF m2.ok THEN [ok |-> TRUE, owner |-> m2.owner, repo |-> StripGit(m2.repo)]
        ELSE [ok |-> FALSE, error |-> "ValueError"]

(***************************************************************************)
(* The working copy: what the clone leaves in the temporary directory.     *)
(*   ls         directory (root-relative path, <<>> for the top) -> its    *)
(*              entries in the order the file system lists them            *)
(*   unreadable the directories whose listing raises PermissionError       *)
(*   pkg, req, gomod, readme   the contents of the files the scanners open *)
(***************************************************************************)
File(n) == [name |-> n, kind |-> "file"]

Dir(n) == [name |-> n, kind |-> "dir"]

\* os.path.join(a, b)
Join(a, b) == a \o s_slash \o b

\* os.path.relpath(p, base) for a path at or under base
RelPath(p, base) ==
    IF p = base THEN s_dot
    ELSE IF StartsWith(p, base \o s_slash) THEN Drop(p, Len(base) + 1)
    ELSE p

\* the names among entries of one kind, in listing order
RECURSIVE NamesOfKind(_, _)
NamesOfKind(entries, kind) ==
    IF entries = <<>> THEN <<>>
    ELSE (IF entries[1].kind = kind THEN <<entries[1].name>> ELSE <<>>)
         \o NamesOfKind(Tail(entries), kind)

\* [x for x in names if Keep(x)]
RECURSIVE FilterNames(_, _, _)
FilterNames(names, hiddenOut, excl) ==
    IF names = <<>> THEN <<>>
    ELSE (IF (hiddenOut /\ StartsWith(names[1], s_dot)) \/ names[1] \in excl
          THEN <<>> ELSE <<names[1]>>)
         \o FilterNames(Tail(names), hiddenOut, excl)

\* a name exists directly under the top of the working copy: (repo_path / n).exists()
ExistsAtTop(wc, n) == \E i \in 1..Len(wc.ls[<<>>]) : wc.ls[<<>>][i].name = n

\* the root-relative path of child d of directory rel
ChildRel(rel, d) == IF rel = <<>> THEN d ELSE Join(rel, d)

\* the absolute path of the directory rel of the working copy at top
AbsOf(top, rel) == IF rel = <<>> THEN top ELSE Join(top, rel)

(***************************************************************************)
(* os.walk(top) with the caller's in-place pruning  dirs[:] = [d for d in  *)
(* dirs if not d.startswith('.') and d not in excl]: the sequence of       *)
(* <<root, file>> visits, top-down. A directory whose listing fails is     *)
(* skipped (onerror is None).                                              *)
(***************************************************************************)
RECURSIVE WalkDir(_, _, _, _)
RECURSIVE WalkDirs(_, _, _, _, _)
WalkDir(wc, top, rel, excl) ==
    IF rel \in wc.unreadable \/ rel \notin DOMAIN wc.ls THEN <<>>
    ELSE LET entries == wc.ls[rel]
             files == NamesOfKind(entries, "file")
             dirs == FilterNames(NamesOfKind(entries, "dir"), TRUE, excl)
         IN  [i \in 1..Len(files) |-> [root |-> AbsOf(top, rel), file |-> files[i]]]
             \o WalkDirs(wc, top, rel, dirs, excl)

WalkDirs(wc, top, rel, dirs, excl) ==
    IF dirs = <<>> THEN <<>>
    ELSE WalkDir(wc, top, ChildRel(rel, dirs[1]), excl)
         \o WalkDirs(wc, top, rel, Tail(dirs), excl)

(***************************************************************************)
(* read_readme                                                             *)
(***************************************************************************)
s_README_md == <<"R","E","A","D","M","E",".","m","d">>
s_README_txt == <<"R","E","A","D","M","E",".","t","x","t">>
s_README == <<"R","E","A","D","M","E">>
s_readme_md == <<"r","e","a","d","m","e",".","m","d">>

readme_files == <<s_README_md, s_README_txt, s_README, s_readme_md>>

ReadmeCap == 2000

\* content[:k] on a text kept as runs [c |-> character, n |-> repetitions]
RECURSIVE TextTake(_, _)
TextTake(runs, k) ==
    IF runs = <<>> \/ k <= 0 THEN <<>>
    ELSE IF runs[1].n <= k THEN <<runs[1]>> \o TextTake(Tail(runs), k - runs[1].n)
    ELSE <<[c |-> runs[1].c, n |-> k]>>

\* read_readme(): the value stored under 'readme'. wc.readme maps a file name to
\* [ok |-> the read succeeds, text |-> its content]
RECURSIVE ReadReadmeFrom(_, _)
ReadReadmeFrom(wc, names) ==
    IF names = <<>> THEN <<>>
    ELSE IF ExistsAtTop(wc, names[1]) /\ names[1] \in DOMAIN wc.readme
            /\ wc.readme[names[1]].ok
         THEN TextTake(wc.readme[names[1]].text, ReadmeCap)
         ELSE ReadReadmeFrom(wc, Tail(names))

(***************************************************************************)
(* detect_language                                                         *)
(***************************************************************************)
language_patterns == <<
    [lang |-> "Python",     exts |-> {<<".","p","y">>}],
    [lang |-> "JavaScript", exts |-> {<<".","j","s">>, <<".","j","s","x">>, <<".","m","j","s">>}],
    [lang |-> "TypeScript", exts |-> {<<".","t","s">>, <<".","t","s","x">>}],
    [lang |-> "Java",       exts |-> {<<".","j","a","v","a">>}],
    [lang |-> "Go",         exts |-> {<<".","g","o">>}],
    [lang |-> "Rust",       exts |-> {<<".","r","s">>}],
    [lang |-> "C++",        exts |-> {<<".","c","p","p">>, <<".","c","c">>, <<".","c","x","x">>,
                                      <<".","h","p","p">>, <<".","h">>}],
    [lang |-> "C",          exts |-> {<<".","c">>, <<".","h">>}],
    [lang |-> "Ruby",       exts |-> {<<".","r","b">>}],
    [lang |-> "Swift",      exts |-> {<<".","s","w","i","f","t">>}],
    [lang |-> "Kotlin",     exts |-> {<<".","k","t">>, <<".","k","t","s">>}],
    [lang |-> "PHP",        exts |-> {<<".","p","h","p">>}],
    [lang |-> "C#",         exts |-> {<<".","c","s">>}],
    [lang |-> "Scala",      exts |-> {<<".","s","c","a","l","a">>}] >>

s_node_modules == <<"n","o","d","e","_","m","o","d","u","l","e","s">>
s_pycache == <<"_","_","p","y","c","a","c","h","e","_","_">>
s_venv == <<"v","e","n","v">>
s_dist == <<"d","i","s","t">>
s_build == <<"b","u","i","l","d">>
s_dot_git == <<".","g","i","t">>
s_target == <<"t","a","r","g","e","t">>
s_vendor == <<"v","e","n","d","o","r">>

LangExcluded == {s_node_modules, s_pycache, s_venv, s_dist, s_build}

\* Path(name).suffix
Suffix(name) ==
    LET i == RFind(name, s_dot)
    IN  IF 1 < i /\ i < Len(name) THEN Drop(name, i - 1) ELSE <<>>

\* the first language of the table whose extensions hold ext, "" when none
LangOfExt(ext) ==
    LET hits == {i \in 1..Len(language_patterns) : ext \in language_patterns[i].exts}
    IN  IF hits = {} THEN ""
        ELSE language_patterns[CHOOSE i \in hits : \A j \in hits : i <= j].lang

\* lang_counts[lang] = lang_counts.get(lang, 0) + 1 on a dict kept as the sequence
\* of its items in insertion order
Bump(counts, lang) ==
    IF \E i \in 1..Len(counts) : counts[i].lang = lang
    THEN [i \in 1..Len(counts) |->
            IF counts[i].lang = lang THEN [lang |-> lang, n |-> counts[i].n + 1] ELSE counts[i]]
    ELSE Append(counts, [lang |-> lang, n |-> 1])

\* the loop over the walk
RECURSIVE CountLangs(_, _)
CountLangs(visits, counts) ==
    IF visits = <<>> THEN counts
    ELSE LET lang == LangOfExt(Lower(Suffix(visits[1].file)))
         IN  CountLangs(Tail(visits), IF lang = "" THEN counts ELSE Bump(counts, lang))

\* a faulty variant of MaxLang: it takes the last of the languages with the largest count
MaxLangLast(counts) ==
    counts[CHOOSE i \in 1..Len(counts) :
             /\ \A j \in 1..Len(counts) : counts[j].n <= counts[i].n
             /\ \A j \in (i + 1)..Len(counts) : counts[j].n < counts[i].n].lang

\* max(lang_counts, key=lang_counts.get): the first key, in insertion order, with the
\* largest count
MaxLang(counts) ==
    counts[CHOOSE i \in 1..Len(counts) :
             /\ \A j \in 1..Len(counts) : counts[j].n <= counts[i].n
             /\ \A j \in 1..(i - 1) : counts[j].n < counts[i].n].lang

\* detect_language(): the values stored under 'languages' and 'main_language'
DetectLanguageResult(wc, top) ==
    LET lang_counts == CountLangs(WalkDir(wc, top, <<>>, LangExcluded), <<>>)
    IN  IF lang_counts # <<>>
        THEN [languages |-> lang_counts, main_language |-> MaxLang(lang_counts)]
        ELSE [languages |-> <<>>, main_language |-> "Unknown"]

(***************************************************************************)
(* detect_tech_stack                                                       *)
(*   wc.pkg   package.json as json.load sees it:                           *)
(*            load  "ok" | "error" (open or json.load raises)              *)
(*            top   "object" | "other" (the document is not an object)     *)
(*            deps, dev   the values under 'dependencies' and              *)
(*                  'devDependencies': shape "absent" | "dict" | "list" |  *)
(*                  "scalar", items its keys or elements in order, each    *)
(*                  [str |-> it is a string, v |-> its characters]         *)
(*   wc.req, wc.gomod   [failAt |-> 0, or the line whose read raises,      *)
(*                       lines |-> the lines]                              *)
(***************************************************************************)
s_package_json == <<"p","a","c","k","a","g","e",".","j","s","o","n">>
s_requirements_txt == <<"r","e","q","u","i","r","e","m","e","n","t","s",".","t","x","t">>
s_go_mod == <<"g","o",".","m","o","d">>
s_Cargo_toml == <<"C","a","r","g","o",".","t","o","m","l">>
s_pom_xml == <<"p","o","m",".","x","m","l">>
s_build_gradle == <<"b","u","i","l","d",".","g","r","a","d","l","e">>
s_eqeq == <<"=","=">>
s_gteq == <<">","=">>
s_hash == <<"#">>
s_require_paren == <<"r","e","q","u","i","r","e"," ","(">>

DepCap == 20

framework_keywords == <<
    [kw |-> <<"r","e","a","c","t">>,         name |-> "React"],
    [kw |-> <<"v","u","e">>,                 name |-> "Vue"],
    [kw |-> <<"a","n","g","u","l","a","r">>, name |-> "Angular"],
    [kw |-> <<"n","e","x","t">>,             name |-> "Next.js"],
    [kw |-> <<"n","u","x","t">>,             name |-> "Nuxt.js"],
    [kw |-> <<"e","x","p","r","e","s","s">>, name |-> "Express"],
    [kw |-> <<"f","a","s","t","i","f","y">>, name |-> "Fastify"],
    [kw |-> <<"k","o","a">>,                 name |-> "Koa"],
    [kw |-> <<"d","j","a","n","g","o">>,     name |-> "Django"],
    [kw |-> <<"f","l","a","s","k">>,         name |-> "Flask"],
    [kw |-> <<"s","p","r","i","n","g">>,     name |-> "Spring"],
    [kw |-> <<"l","a","r","a","v","e","l">>, name |-> "Laravel"] >>

\* x in seq
InSeq(seq, x) == \E i \in 1..Len(seq) : seq[i] = x

\* the inner loop over framework_keywords for one dependency name: the names of the
\* matching keywords not yet listed are appended in table order (the table's names
\* are distinct, so one pass appends each at most once)
MatchKeywords(dep_lower, table, frameworks) ==
    LET hits == SelectSeq(table, LAMBDA e : Contains(dep_lower, e.kw) /\ ~InSeq(frameworks, e.name))
    IN  frameworks \o [i \in 1..Len(hits) |-> hits[i].name]

\* for dep in deps: ... ; stops with raised = TRUE at an element without .lower()
RECURSIVE FrameworkLoop(_, _)
FrameworkLoop(items, frameworks) ==
    IF items = <<>> THEN [frameworks |-> frameworks, raised |-> FALSE]
    ELSE IF ~items[1].str THEN [frameworks |-> frameworks, raised |-> TRUE]
    ELSE FrameworkLoop(Tail(items),
                       MatchKeywords(Lower(items[1].v), framework_keywords, frameworks))

ItemNames(items) == [i \in 1..Len(items) |-> items[i].v]

\* pkg.get('dependencies', {})
GetDeps(pkg) == IF pkg.deps.shape = "absent" THEN [shape |-> "dict", items |-> <<>>] ELSE pkg.deps

\* the package.json block: tech_stack after it
PackageJsonStep(wc, ts) ==
    IF ~ExistsAtTop(wc, s_package_json) THEN ts
    ELSE IF wc.pkg.load # "ok" \/ wc.pkg.top # "object" THEN ts
    ELSE LET deps == GetDeps(wc.pkg)
         IN  IF deps.shape = "scalar" THEN ts
             ELSE LET loop == FrameworkLoop(deps.items, ts.frameworks)
                      afterLoop == [ts EXCEPT !.frameworks = loop.frameworks]
                  IN  IF loop.raised \/ deps.shape # "dict" THEN afterLoop
                      ELSE [afterLoop EXCEPT !.dependencies = Take(ItemNames(deps.items), DepCap)]

\* line.split('==')[0].split('>=')[0].strip()
ReqName(line) == Strip(SplitFirst(SplitFirst(line, s_eqeq), s_gteq))

\* the loop over the lines of requirements.txt
RECURSIVE ReqDeps(_)
ReqDeps(lines) ==
    IF lines = <<>> THEN <<>>
    ELSE LET line == Strip(lines[1])
         IN  (IF line # <<>> /\ ~StartsWith(line, s_hash) THEN <<ReqName(line)>> ELSE <<>>)
             \o ReqDeps(Tail(lines))

\* the requirements.txt block
RequirementsStep(wc, ts) ==
    IF ~ExistsAtTop(wc, s_requirements_txt) THEN ts
    ELSE IF wc.req.failAt # 0 THEN ts
    ELSE [ts EXCEPT !.dependencies = @ \o Take(ReqDeps(wc.req.lines), DepCap)]

\* the go.mod block
GoModStep(wc, ts) ==
    IF ~ExistsAtTop(wc, s_go_mod) THEN ts
    ELSE LET lines == wc.gomod.lines
             hits == {i \in 1..Len(lines) : StartsWith(lines[i], s_require_paren)}
             first == IF hits = {} THEN 0 ELSE CHOOSE i \in hits : \A j \in hits : i <= j
         IN  IF first # 0 /\ (wc.gomod.failAt = 0 \/ wc.gomod.failAt > first)
             THEN [ts EXCEPT !.frameworks = Append(@, "Go Modules")]
             ELSE ts

\* the Cargo.toml, pom.xml and build.gradle blocks
PresenceSteps(wc, ts) ==
    LET a == IF ExistsAtTop(wc, s_Cargo_toml)
             THEN [ts EXCEPT !.frameworks = Append(@, "Cargo/Rust")] ELSE ts
        b == IF ExistsAtTop(wc, s_pom_xml)
             THEN [a EXCEPT !.frameworks = Append(@, "Maven/Java"),
                            !.build_tools = Append(@, "Maven")] ELSE a
    IN  IF ExistsAtTop(wc, s_build_gradle)
        THEN [b EXCEPT !.build_tools = Append(@, "Gradle")] ELSE b

EmptyTechStack == [frameworks |-> <<>>, dependencies |-> <<>>, build_tools |-> <<>>]

\* detect_tech_stack(): the value stored under 'tech_stack'
DetectTechStackResult(wc) ==
    PresenceSteps(wc, GoModStep(wc, RequirementsStep(wc, PackageJsonStep(wc, EmptyTechStack))))

(***************************************************************************)
(* analyze_structure                                                       *)
(***************************************************************************)
s_root == <<"r","o","o","t">>

KeySuffixes == {<<".","p","y">>, <<".","j","s">>, <<".","t","s">>, <<".","g","o">>,
                <<".","r","s">>, <<".","j","a","v","a">>, <<".","r","b">>}

KeyNames == {s_README_md, s_package_json, s_requirements_txt, s_Cargo_toml, s_go_mod, s_pom_xml}

StructExcluded == {s_node_modules, s_pycache, s_venv, s_dot_git, s_dist, s_build, s_target, s_vendor}

StructCap == 10

\* the test of the key_files comprehension
IsKeyFile(name) == Suffix(name) \in KeySuffixes \/ name \in KeyNames

RECURSIVE KeyFilesOf(_)
KeyFilesOf(names) ==
    IF names = <<>> THEN <<>>
    ELSE (IF IsKeyFile(names[1]) THEN <<names[1]>> ELSE <<>>) \o KeyFilesOf(Tail(names))

\* structure[k] = v
Put(m, k, v) == (k :> v) @@ m

\* prefix or 'root'
StructKey(prefix) == IF prefix = <<>> THEN s_root ELSE prefix

\* walk_dir(path, prefix) on the structure so far: [raised, m]; raised when a
\* listing (path.iterdir()) raises, which ends analyze_structure
RECURSIVE walk_dir(_, _, _)
RECURSIVE walk_subdirs(_, _, _, _)
walk_dir(wc, prefix, st) ==
    IF st.raised THEN st
    ELSE IF prefix \in wc.unreadable \/ prefix \notin DOMAIN wc.ls THEN [st EXCEPT !.raised = TRUE]
    ELSE LET items == wc.ls[prefix]
             dirs == FilterNames(NamesOfKind(items, "dir"), TRUE, {})
             files == FilterNames(NamesOfKind(items, "file"), TRUE, {})
             key_files == KeyFilesOf(files)
             st1 == IF key_files # <<>>
                    THEN [st EXCEPT !.m = Put(@, StructKey(prefix), Take(key_files, StructCap))]
                    ELSE st
         IN  walk_subdirs(wc, prefix, FilterNames(dirs, FALSE, StructExcluded), st1)

walk_subdirs(wc, prefix, dirs, st) ==
    IF dirs = <<>> \/ st.raised THEN st
    ELSE walk_subdirs(wc, prefix, Tail(dirs), walk_dir(wc, ChildRel(prefix, dirs[1]), st))

\* analyze_structure(): [raised, m]; m is stored under 'structure' unless raised
AnalyzeStructureResult(wc) == walk_dir(wc, <<>>, [raised |-> FALSE, m |-> <<>>])

(***************************************************************************)
(* find_entry_points                                                       *)
(***************************************************************************)
main_patterns == {<<"m","a","i","n">>, <<"a","p","p">>, <<"i","n","d","e","x">>,
                  <<"s","e","r","v","e","r">>, <<"c","l","i">>, <<"r","u","n">>}

config_patterns == {<<"c","o","n","f","i","g">>, <<"s","e","t","t","i","n","g","s">>,
                    <<".","e","n","v">>, <<"s","e","t","u","p">>}

test_patterns == {<<"t","e","s","t">>, <<"s","p","e","c">>,
                  <<"_","_","t","e","s","t","s","_","_">>}

MainSuffixes == {<<".","p","y">>, <<".","j","s">>, <<".","t","s">>, <<".","g","o">>,
                 <<".","r","s">>, <<".","j","a","v","a">>, <<".","r","b">>, <<".","s","h">>}

ConfigNames == {s_package_json, s_requirements_txt, s_Cargo_toml, s_go_mod, s_pom_xml,
                s_build_gradle, <<"M","a","k","e","f","i","l","e">>,
                <<"D","o","c","k","e","r","f","i","l","e">>}

TestSuffixes == {<<".","t","e","s","t",".","j","s">>, <<".","t","e","s","t",".","t","s">>,
                 <<".","s","p","e","c",".","j","s">>, <<".","s","p","e","c",".","t","s">>,
                 <<"_","t","e","s","t",".","p","y">>, <<"_","t","e","s","t",".","g","o">>}

EntryExcluded == {s_node_modules, s_pycache, s_venv, s_dist, s_build, s_dot_git}

MainCap == 10

ConfigCap == 15

TestCap == 10

IsMain(f) ==
    /\ \E p \in main_patterns : Contains(Lower(f), p)
    /\ \E e \in MainSuffixes : EndsWith(f, e)

IsConfig(f) == (\E p \in config_patterns : Contains(Lower(f), p)) \/ f \in ConfigNames

IsTest(f) == (\E p \in test_patterns : Contains(Lower(f), p)) \/ (\E e \in TestSuffixes : EndsWith(f, e))

\* the paths the loop appends to one bucket, in walk order
RECURSIVE Collect(_, _, _)
Collect(visits, top, bucket) ==
    IF visits = <<>> THEN <<>>
    ELSE LET f == visits[1].file
             hit == /\ ~StartsWith(f, s_dot)
                    /\ CASE bucket = "main" -> IsMain(f)
                         [] bucket = "config" -> IsConfig(f)
                         [] bucket = "test" -> IsTest(f)
         IN  (IF hit THEN <<RelPath(Join(visits[1].root, f), top)>> ELSE <<>>)
             \o Collect(Tail(visits), top, bucket)

\* the distinct elements of a list, by first occurrence
RECURSIVE Dedup(_)
Dedup(l) ==
    IF l = <<>> THEN <<>>
    ELSE LET rest == Dedup(SubSeq(l, 1, Len(l) - 1))
         IN  IF InSeq(rest, l[Len(l)]) THEN rest ELSE Append(rest, l[Len(l)])

\* list(set(l)): the distinct elements in the order the hash table yields them, which
\* varies with the process's string hash seed; the seed picks one rotation
SetList(l, seed) ==
    LET d == Dedup(l)
        k == IF d = <<>> THEN 0 ELSE seed % Len(d)
    IN  Drop(d, k) \o Take(d, k)

\* a faulty variant of Cap: it does not truncate
CapNone(l, n) == l

\* l[:n]
Cap(l, n) == Take(l, n)

\* find_entry_points(): the value stored under 'entry_points'
FindEntryPointsResult(wc, top, seed) ==
    LET visits == WalkDir(wc, top, <<>>, EntryExcluded)
    IN  [main_files   |-> Cap(SetList(Collect(visits, top, "main"), seed), MainCap),
         config_files |-> Cap(SetList(Collect(visits, top, "config"), seed), ConfigCap),
         test_files   |-> Cap(SetList(Collect(visits, top, "test"), seed), TestCap)]

(***************************************************************************)
(* analyze_apis                                                            *)
(***************************************************************************)
api_patterns == {<<"a","p","i">>, <<"r","o","u","t","e">>,
                 <<"e","n","d","p","o","i","n","t">>,
                 <<"c","o","n","t","r","o","l","l","e","r">>}

ApiCap == 15

RECURSIVE CollectApi(_, _)
CollectApi(visits, top) ==
    IF visits = <<>> THEN <<>>
    ELSE LET f == visits[1].file
             hit == ~StartsWith(f, s_dot) /\ \E p \in api_patterns : Contains(Lower(f), p)
         IN  (IF hit THEN <<RelPath(Join(visits[1].root, f), top)>> ELSE <<>>)
             \o CollectApi(Tail(visits), top)

\* analyze_apis(): the value stored under 'api_files'
AnalyzeApisResult(wc, top) == Take(CollectApi(WalkDir(wc, top, <<>>, {}), top), ApiCap)

(***************************************************************************)
(* The repositories the model clones. Each family varies what one scanner  *)
(* reads; every family member is a complete working copy.                  *)
(***************************************************************************)
NoDeps == [shape |-> "absent", items |-> <<>>]

NoPkg == [load |-> "ok", top |-> "object", deps |-> NoDeps, dev |-> NoDeps]

NoLines == [failAt |-> 0, lines |-> <<>>]

NoReadme == [n \in {} |-> [ok |-> TRUE, text |-> <<>>]]

WC(ls, unreadable) ==
    [ls |-> ls, unreadable |-> unreadable, pkg |-> NoPkg, req |-> NoLines,
     gomod |-> NoLines, readme |-> NoReadme]

Str(v) == [str |-> TRUE, v |-> v]

NonStr == [str |-> FALSE, v |-> <<>>]

s_py == <<".","p","y">>
s_go == <<".","g","o">>
s_src == <<"s","r","c">>
s_lib == <<"l","i","b">>
s_react == <<"r","e","a","c","t">>
s_flask == <<"f","l","a","s","k">>
s_Flask == <<"F","l","a","s","k">>
s_express == <<"e","x","p","r","e","s","s">>
s_vue == <<"v","u","e">>
s_jest == <<"j","e","s","t">>
s_requests == <<"r","e","q","u","e","s","t","s">>
s_pkg == <<"p","k","g">>
s_bulk == <<"a","p","p","_","c","o","n","f","i","g","_","t","e","s","t","_","a","p","i","_">>
s_main_py == <<"m","a","i","n",".","p","y">>
s_notes_txt == <<"n","o","t","e","s",".","t","x","t">>
s_data_bin == <<"d","a","t","a",".","b","i","n">>
s_dot_github == <<".","g","i","t","h","u","b">>
s_x_H == <<"x",".","H">>
s_dot_env == <<".","e","n","v">>

\* n distinct names  stem<letter>ext
Names(stem, ext, n) == [i \in 1..n |-> stem \o <<LowerChars[i]>> \o ext]

Files(names) == [i \in 1..Len(names) |-> File(names[i])]

(* ---- languages: N .py files and M .go files, listed either way round ---- *)
MaxPy == 2

MaxGo == 2

LangExtras == {"none", "excluded", "hidden", "nested", "header"}

LangWC(n, m, pyFirst, extra) ==
    LET py == Files(Names(<<"p">>, s_py, n))
        go == Files(Names(<<"g">>, s_go, m))
        own == IF pyFirst THEN py \o go ELSE go \o py
        d == CASE extra = "none" -> <<>>
               [] extra = "excluded" -> <<Dir(s_node_modules)>>
               [] extra = "hidden" -> <<Dir(s_dot_github)>>
               [] extra = "nested" -> <<Dir(s_src)>>
               [] extra = "header" -> <<File(s_x_H)>>
        sub == CASE extra = "excluded" -> (s_node_modules :> <<File(<<"z">> \o s_py)>>)
                 [] extra = "hidden" -> (s_dot_github :> <<File(<<"z">> \o s_go)>>)
                 [] extra = "nested" -> (s_src :> <<File(<<"z">> \o s_go), File(<<"y">> \o s_py)>>)
                 [] OTHER -> <<>>
    IN  WC((<<>> :> (d \o own)) @@ sub, {})

LangWCs ==
    {LangWC(n, m, f, e) : n \in 0..MaxPy, m \in 0..MaxGo, f \in BOOLEAN, e \in LangExtras}

(* ---- manifests ---- *)
MaxDeps == 21

DictOf(names) == [shape |-> "dict", items |-> [i \in 1..Len(names) |-> Str(names[i])]]

Pkgs ==
    { [NoPkg EXCEPT !.load = "error", !.deps = DictOf(<<s_react>>)],
      [NoPkg EXCEPT !.top = "other"],
      NoPkg,
      [NoPkg EXCEPT !.deps = [shape |-> "scalar", items |-> <<>>]],
      [NoPkg EXCEPT !.deps = DictOf(<<s_flask, s_express>>), !.dev = DictOf(<<s_jest>>)],
      [NoPkg EXCEPT !.deps = DictOf(Names(<<"d">>, <<>>, MaxDeps))],
      [NoPkg EXCEPT !.deps = [shape |-> "list", items |-> <<Str(s_react)>>]],
      [NoPkg EXCEPT !.deps = [shape |-> "list", items |-> <<Str(s_vue), NonStr, Str(s_react)>>]] }

ReqLine(name, op) == name \o op \o <<"2", "\n">>

Reqs ==
    { NoLines,
      [failAt |-> 2, lines |-> <<ReqLine(s_flask, s_eqeq), ReqLine(s_requests, s_gteq)>>],
      [failAt |-> 0, lines |-> <<ReqLine(s_Flask, s_eqeq), <<"#", " ", "x", "\n">>, <<"\n">>,
                                 ReqLine(<<" ">> \o s_requests \o <<" ">>, s_gteq)>>],
      [failAt |-> 0, lines |-> <<ReqLine(s_flask, s_eqeq), ReqLine(s_flask, s_gteq)>>],
      [failAt |-> 0, lines |-> [i \in 1..MaxDeps |-> ReqLine(<<"r", LowerChars[i]>>, s_eqeq)]] }

s_module_line == <<"m","o","d","u","l","e"," ","x","\n">>

GoMods ==
    { [failAt |-> 0, lines |-> <<s_module_line, s_require_paren \o <<"\n">>>>],
      [failAt |-> 0, lines |-> <<s_module_line>>],
      [failAt |-> 2, lines |-> <<s_module_line, s_require_paren \o <<"\n">>>>] }

ManifestWC(hasPkg, pkg, hasReq, req, hasGo, gomod, others) ==
    LET top == (IF hasPkg THEN <<File(s_package_json)>> ELSE <<>>)
               \o (IF hasReq THEN <<File(s_requirements_txt)>> ELSE <<>>)
               \o (IF hasGo THEN <<File(s_go_mod)>> ELSE <<>>)
               \o (IF others THEN <<File(s_Cargo_toml), File(s_pom_xml), File(s_build_gradle)>>
                   ELSE <<>>)
    IN  [WC(<<>> :> top, {}) EXCEPT !.pkg = pkg, !.req = req, !.gomod = gomod]

ManifestWCs ==
    {ManifestWC(TRUE, p, TRUE, r, FALSE, NoLines, FALSE) : p \in Pkgs, r \in Reqs}
    \cup {ManifestWC(FALSE, NoPkg, TRUE, r, TRUE, g, o) : r \in Reqs, g \in GoMods, o \in BOOLEAN}
    \cup {ManifestWC(TRUE, p, FALSE, NoLines, TRUE, g, TRUE) : p \in Pkgs, g \in GoMods}

(* ---- many matching files: one at the top, the rest under pkg/, one under build/ ---- *)
MaxFiles == 17

BulkWC(n) ==
    LET names == Names(s_bulk, s_py, n)
    IN  WC((<<>> :> (<<Dir(s_pkg), Dir(s_build), File(s_dot_env)>> \o Files(Take(names, 1))))
           @@ (s_pkg :> Files(Drop(names, 1)))
           @@ (s_build :> <<File(s_main_py)>>), {})

BulkWCs == {BulkWC(n) : n \in 0..MaxFiles}

(* ---- directory shapes ---- *)
MaxKeyFiles == 11

TopFileSets == {<<>>, <<File(<<"a">> \o s_py)>>, <<File(s_notes_txt)>>}

SubDirNames == {s_src, s_root, s_vendor, s_dot_github, s_node_modules}

SubFileSets ==
    {<<>>, <<File(<<"b">> \o s_py)>>, <<File(s_data_bin), File(<<".", "h">> \o s_py)>>,
     Files(Names(<<"k">>, s_py, MaxKeyFiles))}

ShapeWC(top, d, sub, nested, locked) ==
    LET ls == (<<>> :> (top \o <<Dir(d)>>))
              @@ (d :> (sub \o (IF nested THEN <<Dir(s_lib)>> ELSE <<>>)))
              @@ (IF nested THEN Join(d, s_lib) :> <<File(<<"c">> \o s_go)>> ELSE <<>>)
    IN  WC(ls, IF locked THEN {d} ELSE {})

ShapeWCs ==
    {ShapeWC(t, d, s, n, l) :
        t \in TopFileSets, d \in SubDirNames, s \in SubFileSets, n \in BOOLEAN, l \in BOOLEAN}

(* ---- the end-to-end repository of the documentation ---- *)
s_config_json == <<"c","o","n","f","i","g",".","j","s","o","n">>

HelloText == <<[c |-> "H", n |-> 1], [c |-> "e", n |-> 1], [c |-> "l", n |-> 2], [c |-> "o", n |-> 1]>>

LongText == <<[c |-> "#", n |-> 1], [c |-> "x", n |-> ReadmeCap]>>

ReadmeWC(names, ok, text) ==
    [ManifestWC(FALSE, NoPkg, TRUE,
                [failAt |-> 0, lines |-> <<ReqLine(s_flask, s_eqeq), <<"#", " ", "c", "\n">>,
                                           ReqLine(s_requests, s_gteq)>>],
                FALSE, NoLines, FALSE)
     EXCEPT !.ls = (<<>> :> (<<File(s_main_py), File(s_config_json), File(s_requirements_txt)>>
                             \o Files(names))),
            !.readme = [n \in {names[i] : i \in 1..Len(names)} |->
                            [ok |-> IF n = names[1] THEN ok ELSE TRUE, text |-> text]]]

ReadmeWCs ==
    {ReadmeWC(ns, ok, t) : ns \in {<<s_README_md>>, <<s_README_md, s_README>>, <<s_readme_md>>},
                           ok \in BOOLEAN, t \in {HelloText, LongText}}
    \cup {ReadmeWC(<<>>, TRUE, HelloText)}

WorkingCopies == LangWCs \cup ManifestWCs \cup BulkWCs \cup ShapeWCs \cup ReadmeWCs

(***************************************************************************)
(* The references the model parses and the ones it runs analyze() on.      *)
(***************************************************************************)
s_repo == <<"r","e","p","o">>
s_pages == <<"m","e",".","g","i","t","h","u","b",".","i","o">>

Urls ==
    {scheme \o host \o sep \o owner \o s_slash \o name \o tail :
        scheme \in {<<>>, s_https, s_git_at},
        host \in {s_github_com, s_gitlab_com},
        sep \in {<<":">>, s_slash},
        owner \in {<<"o">>, <<>>},
        name \in {s_repo, s_pages, s_git_suffix},
        tail \in {<<>>, s_git_suffix, s_slash, s_git_suffix \o s_newline}}

CliUrls ==
    {s_https \o s_github_com \o s_slash \o <<"o">> \o s_slash \o s_repo,
     s_git_at \o s_github_com \o <<":">> \o <<"o">> \o s_slash \o s_pages \o s_git_suffix,
     s_https \o s_gitlab_com \o s_slash \o <<"o">> \o s_slash \o s_repo \o s_git_suffix}

\* what tempfile.mkdtemp(prefix="github_analyzer_") returns
TempName == <<"/","t","m","p","/","g","i","t","h","u","b","_","a","n","a","l","y","z","e","r","_","x">>

GitErrors == {"fatal: repository not found", "fatal: unable to access"}

\* the string hash seeds of the process
MaxSeed == 2

(***************************************************************************)
(* State.                                                                  *)
(*   repo_url, temp_dir, repo_path, repo_info   the fields of the object   *)
(*       (temp_dir and repo_path are <<>> while None)                      *)
(*   parsed     what a call of parse_url() gave                            *)
(*   pc         where analyze() stands                                     *)
(*   pending    how the try block ended, kept while finally runs           *)
(*   result     what analyze() gave its caller                             *)
(*   disk       the temporary directory on disk: whether it exists, and    *)
(*              the working copy in it                                     *)
(*   removal    what the shutil.rmtree call of finally did                 *)
(*   calls      the methods analyze() has called, in order                 *)
(***************************************************************************)
VARIABLES repo_url, temp_dir, repo_path, repo_info, parsed, pc, pending, result, disk,
          removal, calls

vars == <<repo_url, temp_dir, repo_path, repo_info, parsed, pc, pending, result, disk,
          removal, calls>>

EmptyWC == WC(<<>> :> <<>>, {})

NoException == [kind |-> "none", exc |-> "", msg |-> ""]

Raise(exc, msg) == [kind |-> "raise", exc |-> exc, msg |-> msg]

Return == [kind |-> "return", exc |-> "", msg |-> ""]

\* __init__
InitObject ==
    /\ temp_dir = <<>>
    /\ repo_path = <<>>
    /\ repo_info = <<>>
    /\ parsed = [called |-> FALSE]
    /\ pc = "new"
    /\ pending = NoException
    /\ result = [kind |-> "none", exc |-> "", msg |-> "", value |-> <<>>]
    /\ disk = [exists |-> FALSE, wc |-> EmptyWC]
    /\ removal = "none"
    /\ calls = <<>>

Init == repo_url \in CliUrls /\ InitObject

InitParse == repo_url \in Urls /\ InitObject

\* parse_url()
ParseUrl ==
    /\ ~parsed.called
    /\ parsed' = [called |-> TRUE, got |-> ParseUrlResult(repo_url)]
    /\ UNCHANGED <<repo_url, temp_dir, repo_path, repo_info, pc, pending, result, disk,
                   removal, calls>>

\* a faulty variant of SetInfo: it starts the report afresh, self.repo_info = {k: v}
SetInfoAfresh(k, v) == repo_info' = (k :> v)

\* self.repo_info[k] = v
SetInfo(k, v) == repo_info' = Put(repo_info, k, v)

\* clone_repo(), the first call of analyze(): git exits non-zero with its diagnostic,
\* or exits 0 and leaves a working copy; or mkdtemp fails before temp_dir is set
CloneRepo ==
    /\ pc = "new"
    /\ calls' = Append(calls, "clone_repo")
    /\ \/ /\ temp_dir' = TempName
          /\ \/ \E stderr \in GitErrors :
                  /\ pending' = Raise("RuntimeError", stderr)
                  /\ pc' = "finally"
                  /\ disk' = [exists |-> TRUE, wc |-> EmptyWC]
                  /\ UNCHANGED repo_path
             \/ \E wc \in WorkingCopies :
                  /\ disk' = [exists |-> TRUE, wc |-> wc]
                  /\ repo_path' = TempName
                  /\ pc' = "readme"
                  /\ UNCHANGED pending
       \/ /\ pending' = Raise("OSError", "mkdtemp")
          /\ pc' = "finally"
          /\ UNCHANGED <<temp_dir, repo_path, disk>>
    /\ UNCHANGED <<repo_url, repo_info, parsed, result, removal>>

ReadReadme ==
    /\ pc = "readme"
    /\ calls' = Append(calls, "read_readme")
    /\ SetInfo("readme", ReadReadmeFrom(disk.wc, readme_files))
    /\ pc' = "language"
    /\ UNCHANGED <<repo_url, temp_dir, repo_path, parsed, pending, result, disk, removal>>

DetectLanguage ==
    /\ pc = "language"
    /\ calls' = Append(calls, "detect_language")
    /\ LET r == DetectLanguageResult(disk.wc, repo_path)
       IN  repo_info' = Put(Put(repo_info, "languages", r.languages),
                            "main_language", r.main_language)
    /\ pc' = "tech_stack"
    /\ UNCHANGED <<repo_url, temp_dir, repo_path, parsed, pending, result, disk, removal>>

DetectTechStack ==
    /\ pc = "tech_stack"
    /\ calls' = Append(calls, "detect_tech_stack")
    /\ SetInfo("tech_stack", DetectTechStackResult(disk.wc))
    /\ pc' = "structure"
    /\ UNCHANGED <<repo_url, temp_dir, repo_path, parsed, pending, result, disk, removal>>

\* analyze_structure(): a listing that raises ends the try block
AnalyzeStructure ==
    /\ pc = "structure"
    /\ calls' = Append(calls, "analyze_structure")
    /\ LET r == AnalyzeStructureResult(disk.wc)
       IN  IF r.raised
           THEN /\ pending' = Raise("PermissionError", "iterdir")
                /\ pc' = "finally"
                /\ UNCHANGED repo_info
           ELSE /\ SetInfo("structure", r.m)
                /\ pc' = "entry_points"
                /\ UNCHANGED pending
    /\ UNCHANGED <<repo_url, temp_dir, repo_path, parsed, result, disk, removal>>

FindEntryPoints ==
    /\ pc = "entry_points"
    /\ calls' = Append(calls, "find_entry_points")
    /\ \E seed \in 0..MaxSeed :
          SetInfo("entry_points", FindEntryPointsResult(disk.wc, repo_path, seed))
    /\ pc' = "apis"
    /\ UNCHANGED <<repo_url, temp_dir, repo_path, parsed, pending, result, disk, removal>>

\* analyze_apis(), then  return self.repo_info
AnalyzeApis ==
    /\ pc = "apis"
    /\ calls' = Append(calls, "analyze_apis")
    /\ SetInfo("api_files", AnalyzeApisResult(disk.wc, repo_path))
    /\ pending' = Return
    /\ pc' = "finally"
    /\ UNCHANGED <<repo_url, temp_dir, repo_path, parsed, result, disk, removal>>

\* a faulty variant of Finally: it removes the directory only when the try block
\* returned
FinallyOnReturnOnly ==
    /\ pc = "finally"
    /\ IF pending.kind = "return" /\ temp_dir # <<>> /\ disk.exists
       THEN \/ disk' = [disk EXCEPT !.exists = FALSE] /\ removal' = "ok"
            \/ disk' = disk /\ removal' = "failed"
       ELSE UNCHANGED <<disk, removal>>
    /\ result' = [kind |-> IF pending.kind = "return" THEN "returned" ELSE "raised",
                  exc |-> pending.exc, msg |-> pending.msg,
                  value |-> IF pending.kind = "return" THEN repo_info ELSE <<>>]
    /\ pc' = "done"
    /\ UNCHANGED <<repo_url, temp_dir, repo_path, repo_info, parsed, pending, calls>>

\* the finally block, then the return or the re-raise: shutil.rmtree removes the
\* directory, or raises and is swallowed by  except: pass
Finally ==
    /\ pc = "finally"
    /\ IF temp_dir # <<>> /\ disk.exists
       THEN \/ disk' = [disk EXCEPT !.exists = FALSE] /\ removal' = "ok"
            \/ disk' = disk /\ removal' = "failed"
       ELSE UNCHANGED <<disk, removal>>
    /\ result' = [kind |-> IF pending.kind = "return" THEN "returned" ELSE "raised",
                  exc |-> pending.exc, msg |-> pending.msg,
                  value |-> IF pending.kind = "return" THEN repo_info ELSE <<>>]
    /\ pc' = "done"
    /\ UNCHANGED <<repo_url, temp_dir, repo_path, repo_info, parsed, pending, calls>>

Next ==
    \/ CloneRepo
    \/ ReadReadme
    \/ DetectLanguage
    \/ DetectTechStack
    \/ AnalyzeStructure
    \/ FindEntryPoints
    \/ AnalyzeApis
    \/ Finally

\* analyze(), as main() runs it
Spec == Init /\ [][Next]_vars

\* parse_url() on its own
NextParse == ParseUrl

SpecParse == InitParse /\ [][NextParse]_vars

(***************************************************************************)
(* Vocabulary of the properties.                                           *)
(***************************************************************************)
Stages == <<"clone_repo", "read_readme", "detect_language", "detect_tech_stack",
            "analyze_structure", "find_entry_points", "analyze_apis">>

Scanners == {Stages[i] : i \in 2..Len(Stages)}

\* the report fields each stage owns
Owned(stage) ==
    CASE stage = "read_readme" -> {"readme"}
      [] stage = "detect_language" -> {"languages", "main_language"}
      [] stage = "detect_tech_stack" -> {"tech_stack"}
      [] stage = "analyze_structure" -> {"structure"}
      [] stage = "find_entry_points" -> {"entry_points"}
      [] stage = "analyze_apis" -> {"api_files"}
      [] OTHER -> {}

RECURSIVE OwnedByAll(_)
OwnedByAll(cs) == IF cs = <<>> THEN {} ELSE Owned(cs[1]) \cup OwnedByAll(Tail(cs))

Has(field) == field \in DOMAIN repo_info

Finished == pc = "done"

Created == temp_dir # <<>>

Fetched == repo_path # <<>>

NoScannerRan == \A i \in 1..Len(calls) : calls[i] \notin Scanners

NoDup(l) == \A i, j \in 1..Len(l) : l[i] = l[j] => i = j

Elems(l) == {l[i] : i \in 1..Len(l)}

\* the directory names a walk does not enter
Pruned(name, excl) == StartsWith(name, s_dot) \/ name \in excl

\* the directories reached from the top through listable directories whose names
\* are not pruned
RECURSIVE ReachFrom(_, _, _)
ReachFrom(wc, excl, have) ==
    LET more == {d \in DOMAIN wc.ls :
                    \E p \in have : \E i \in 1..Len(wc.ls[p]) :
                        /\ p \notin wc.unreadable
                        /\ wc.ls[p][i].kind = "dir"
                        /\ ~Pruned(wc.ls[p][i].name, excl)
                        /\ ChildRel(p, wc.ls[p][i].name) = d}
    IN  IF more \subseteq have THEN have ELSE ReachFrom(wc, excl, have \cup more)

Reach(wc, excl) == ReachFrom(wc, excl, {<<>>})

\* the files (as root-relative paths) directly in directory d
FilePathsIn(wc, d) ==
    {ChildRel(d, wc.ls[d][i].name) : i \in {j \in 1..Len(wc.ls[d]) : wc.ls[d][j].kind = "file"}}

FileNamesIn(wc, d) ==
    {wc.ls[d][i].name : i \in {j \in 1..Len(wc.ls[d]) : wc.ls[d][j].kind = "file"}}

\* the file names a language walk can see, with their directory
SeenFiles(wc) ==
    UNION {{<<d, n>> : n \in FileNamesIn(wc, d)} :
              d \in Reach(wc, LangExcluded) \ wc.unreadable}

ExtCount(wc, ext) == Cardinality({f \in SeenFiles(wc) : Lower(Suffix(f[2])) = ext})

KnownExts == UNION {language_patterns[i].exts : i \in 1..Len(language_patterns)}

OnlyPyGo(wc) == \A f \in SeenFiles(wc) : Lower(Suffix(f[2])) \in KnownExts => Lower(Suffix(f[2])) \in {s_py, s_go}

\* the count of lang in a histogram, 0 when it has no entry
HistCount(h, lang) ==
    IF \E i \in 1..Len(h) : h[i].lang = lang
    THEN h[CHOOSE i \in 1..Len(h) : h[i].lang = lang].n
    ELSE 0

\* the histogram {Python: n, Go: m}, an entry only for a positive count
IsPyGoHistogram(h, n, m) ==
    /\ \A i \in 1..Len(h) : h[i].lang \in {"Python", "Go"} /\ h[i].n > 0
    /\ NoDup([i \in 1..Len(h) |-> h[i].lang])
    /\ HistCount(h, "Python") = n
    /\ HistCount(h, "Go") = m

\* the same directories with the same entries, listed in any order
SameTree(w1, w2) ==
    /\ DOMAIN w1.ls = DOMAIN w2.ls
    /\ w1.unreadable = w2.unreadable
    /\ \A d \in DOMAIN w1.ls :
          Len(w1.ls[d]) = Len(w2.ls[d]) /\ Elems(w1.ls[d]) = Elems(w2.ls[d])

\* the language of the first .py or .go file the walk visits
FirstPyGo(wc) ==
    LET visits == WalkDir(wc, TempName, <<>>, LangExcluded)
        hits == {i \in 1..Len(visits) : Lower(Suffix(visits[i].file)) \in {s_py, s_go}}
        first == CHOOSE i \in hits : \A j \in hits : i <= j
    IN  IF hits = {} THEN "Unknown"
        ELSE IF Lower(Suffix(visits[first].file)) = s_py THEN "Python" ELSE "Go"

C2_TwoFatalOutcomes ==
    Finished =>
        /\ ~ParseUrlResult(repo_url).ok =>
              (result.kind = "raised" /\ result.exc = "ValueError" /\ NoScannerRan)
        /\ (ParseUrlResult(repo_url).ok /\ Created /\ ~Fetched) =>
              (result.kind = "raised" /\ result.exc = "RuntimeError"
               /\ result.msg \in GitErrors /\ NoScannerRan)

(***************************************************************************)
(* C3                                                                      *)
(***************************************************************************)
\* C3: a finished run whose fetch succeeded ran every stage and returned a report,
\* whatever directory of the working copy cannot be listed.
C3_NoLaterStageFatal ==
    (Finished /\ Fetched) => (result.kind = "returned" /\ calls = Stages)

(***************************************************************************)
(* C4                                                                      *)
(***************************************************************************)
\* the entries other than the one named n
RECURSIVE FilterNamesOut(_, _)
FilterNamesOut(entries, n) ==
    IF entries = <<>> THEN <<>>
    ELSE (IF entries[1].name = n THEN <<>> ELSE <<entries[1]>>) \o FilterNamesOut(Tail(entries), n)

\* the working copy without the file n at its top
Without(wc, n) ==
    [wc EXCEPT !.ls[<<>>] = FilterNamesOut(wc.ls[<<>>], n)]

\* the processing of package.json raises
PkgFails(wc) ==
    /\ ExistsAtTop(wc, s_package_json)
    /\ \/ wc.pkg.load # "ok"
       \/ wc.pkg.top # "object"
       \/ wc.pkg.deps.shape \in {"scalar", "list"}

\* the reading of requirements.txt raises
ReqFails(wc) == ExistsAtTop(wc, s_requirements_txt) /\ wc.req.failAt # 0

\* the reading of go.mod raises before a require block is seen
GoModFails(wc) ==
    /\ ExistsAtTop(wc, s_go_mod)
    /\ wc.gomod.failAt # 0
    /\ \A i \in 1..Len(wc.gomod.lines) :
          StartsWith(wc.gomod.lines[i], s_require_paren) => wc.gomod.failAt <= i

FailedManifests(wc) ==
    (IF PkgFails(wc) THEN {s_package_json} ELSE {})
    \cup (IF ReqFails(wc) THEN {s_requirements_txt} ELSE {})
    \cup (IF GoModFails(wc) THEN {s_go_mod} ELSE {})

\* C4: after detect_tech_stack, tech_stack is what it would be were each manifest
\* whose processing raised absent from the working copy: the failed manifest left
\* nothing, the others contributed in full.
C4_FailedManifestLeavesNothing ==
    Has("tech_stack") =>
        \A n \in FailedManifests(disk.wc) :
            repo_info["tech_stack"] = DetectTechStackResult(Without(disk.wc, n))

(***************************************************************************)
(* C5                                                                      *)
(***************************************************************************)
\* package.json was processed without raising
PkgProcessed(wc) == ExistsAtTop(wc, s_package_json) /\ ~PkgFails(wc)

\* the names package.json declares under devDependencies
DevNames(wc) == IF wc.pkg.dev.shape = "dict" THEN Elems(ItemNames(wc.pkg.dev.items)) ELSE {}

\* C5: after detect_tech_stack, dependencies holds no name twice, holds at most 20
\* names from each of its two sources, and holds the development dependencies of a
\* package.json that was processed and declares at most 20 names in all.
C5_DependenciesDeduplicated ==
    Has("tech_stack") =>
        LET deps == repo_info["tech_stack"].dependencies
        IN  /\ NoDup(deps)
            /\ Len(deps) <= 2 * DepCap
            /\ (PkgProcessed(disk.wc)
                /\ Len(GetDeps(disk.wc.pkg).items) + Cardinality(DevNames(disk.wc)) <= DepCap)
               => DevNames(disk.wc) \subseteq Elems(deps)

(***************************************************************************)
(* C6                                                                      *)
(***************************************************************************)
\* the root-relative paths of the files of the working copy
AllFilePaths(wc) == UNION {FilePathsIn(wc, d) : d \in DOMAIN wc.ls}

BucketOK(bucket, cap) ==
    /\ NoDup(bucket)
    /\ Len(bucket) <= cap
    /\ \A i \in 1..Len(bucket) :
          /\ ~StartsWith(bucket[i], s_slash)
          /\ bucket[i] \in AllFilePaths(disk.wc)

\* C6: after find_entry_points, each of the three buckets holds no path twice, holds
\* at most its cap (10, 15, 10), and holds only paths that are relative and name a
\* file of the working copy from its root.
C6_BucketsDistinctCappedRelative ==
    Has("entry_points") =>
        /\ BucketOK(repo_info["entry_points"].main_files, MainCap)
        /\ BucketOK(repo_info["entry_points"].config_files, ConfigCap)
        /\ BucketOK(repo_info["entry_points"].test_files, TestCap)

\* more files matched than the caps allow, some of them below the top directory
C6_Witness ==
    /\ Has("entry_points")
    /\ Len(repo_info["entry_points"].main_files) = MainCap
    /\ Len(repo_info["entry_points"].config_files) = ConfigCap
    /\ Len(repo_info["entry_points"].test_files) = TestCap
    /\ \E i \in 1..MainCap : Contains(repo_info["entry_points"].main_files[i], s_slash)
    /\ Cardinality({p \in AllFilePaths(disk.wc) : Contains(p, s_bulk)}) > ConfigCap

(***************************************************************************)
(* C7                                                                      *)
(***************************************************************************)
\* the part of C7 that holds either way: the histogram and the larger count
C7_CountsAndMajority ==
    LET n == ExtCount(disk.wc, s_py)
        m == ExtCount(disk.wc, s_go)
    IN  /\ IsPyGoHistogram(repo_info["languages"], n, m)
        /\ (n = 0 /\ m = 0) => repo_info["main_language"] = "Unknown"
        /\ n > m => repo_info["main_language"] = "Python"
        /\ m > n => repo_info["main_language"] = "Go"
        /\ n + m > 0 => repo_info["main_language"] \in {"Python", "Go"}

SupportedForms ==
    {[url |-> scheme \o s_github_com \o sep \o owner \o s_slash \o name \o tail,
      owner |-> owner, name |-> name] :
        scheme \in {<<>>, s_https, s_git_at},
        sep \in {<<":">>, s_slash},
        owner \in {<<"o">>},
        name \in {s_repo, s_pages},
        tail \in {<<>>, s_git_suffix}}

MatchesSomePattern(url) == \E i \in 1..Len(patterns) : Search(url, patterns[i]).ok

\* C8: parse_url on a reference of a supported form gives exactly the owner and the
\* name it was built from (only a trailing .git dropped); on a reference matching no
\* pattern it raises and leaves the object and the disk as they were.
C8_ExactOwnerAndName ==
    parsed.called =>
        /\ \A f \in SupportedForms :
              f.url = repo_url =>
                 (parsed.got.ok /\ parsed.got.owner = f.owner /\ parsed.got.repo = f.name)
        /\ ~MatchesSomePattern(repo_url) =>
              (~parsed.got.ok /\ temp_dir = <<>> /\ repo_info = <<>> /\ ~disk.exists)

(***************************************************************************)
(* C9                                                                      *)
(***************************************************************************)
\* the interesting direct child files of directory d
Interesting(wc, d) == {n \in FileNamesIn(wc, d) : ~StartsWith(n, s_dot) /\ IsKeyFile(n)}

\* the directories that are to have an entry
EntryDirs(wc) == {d \in Reach(wc, StructExcluded) : Interesting(wc, d) # {}}

KeyOf(d) == IF d = <<>> THEN s_root ELSE d

\* C9: after analyze_structure, every directory reached without passing a hidden or
\* excluded directory that has an interesting direct child file has an entry, under
\* 'root' for the top and its root-relative path otherwise, listing at most 10 names,
\* all of them interesting direct children of that directory; and there is no other
\* entry.
C9_EntriesExactlyInterestingDirs ==
    Has("structure") =>
        LET m == repo_info["structure"]
        IN  /\ \A d \in EntryDirs(disk.wc) :
                  /\ KeyOf(d) \in DOMAIN m
                  /\ Len(m[KeyOf(d)]) <= StructCap
                  /\ Elems(m[KeyOf(d)]) \subseteq Interesting(disk.wc, d)
            /\ \A k \in DOMAIN m : \E d \in EntryDirs(disk.wc) : KeyOf(d) = k

(***************************************************************************)
(* C10                                                                     *)
(***************************************************************************)
IsPrefix(s, t) == Len(s) <= Len(t) /\ SubSeq(t, 1, Len(s)) = s

\* C10: at every step the calls made so far are an initial part of clone_repo,
\* read_readme, detect_language, detect_tech_stack, analyze_structure,
\* find_entry_points, analyze_apis (each at most once, in that order), no scanner is
\* called unless the clone succeeded, a step leaves every report field already
\* written as it was and adds only fields owned by the stage it calls, and a returned
\* report holds exactly the fields of the seven stages.
C10_Step ==
    /\ IsPrefix(calls', Stages)
    /\ Len(calls') > 1 => repo_path' # <<>>
    /\ \A k \in DOMAIN repo_info : k \in DOMAIN repo_info' /\ repo_info'[k] = repo_info[k]
    /\ (DOMAIN repo_info' \ DOMAIN repo_info) # {} =>
          /\ Len(calls') = Len(calls) + 1
          /\ (DOMAIN repo_info' \ DOMAIN repo_info) \subseteq Owned(calls'[Len(calls')])
    /\ DOMAIN repo_info' \subseteq OwnedByAll(calls')
    /\ result'.kind = "returned" =>
          (calls' = Stages /\ result'.value = repo_info' /\ DOMAIN repo_info' = OwnedByAll(Stages))

C10_StagesInOrderOwnFields == [][C10_Step]_vars

\* a run that returned its report after all seven stages
C10_Witness == Finished /\ result.kind = "returned" /\ calls = Stages /\ Has("api_files")

====
